---- MODULE Spec2Model ----
(***************************************************************************)
(* StateAtoms: Atom / ObjectAtom value cells, AtomContainer event          *)
(* forwarding, serialization and history, InitValidationHelper.            *)
(*                                                                         *)
(* Event dispatch is synchronous: one public call (a setter, init(),       *)
(* addHistory(), on()) runs to completion, nested emits and re-entrant     *)
(* setter calls included, so each public call is one action.  Its effect   *)
(* is computed by the recursive operators below, which thread an           *)
(* evaluation record through the call chain exactly as the calls nest.     *)
(***************************************************************************)
EXTENDS Integers, Sequences, FiniteSets, TLC

VARIABLES
  value,             \* Atom._value, per atom
  listeners,         \* EventEmitter listener arrays, per node and event
  history,           \* AtomContainer._history, per container
  historyIndex,      \* AtomContainer._historyIndex, per container
  useHistory,        \* AtomContainer._useHistory, per container
  skipSerialization, \* the flag each constructor stored: skipSerialization
                     \* of a container, _isSkipSerialization of an atom
  options,           \* the options object each node was constructed with
  isInitialized,     \* InitValidationHelper._isInitialized, per container
  hasWarned,         \* InitValidationHelper._hasWarned, per container
  warnings,          \* console.warn calls made so far
  nextSetter,        \* number of re-entrant application listeners attached
  log,               \* what the application listeners saw in the last call
  calls,             \* setter calls, stores and emits made by the last call
  last,              \* the last public call
  pre,               \* values and history as they were before the last call
  setup,             \* per history container: its serialized state at setup
  thrown,            \* the exception the last public call raised, or "none"
  deep,              \* per atom: it is an ObjectAtom (TRUE) or an Atom
  present,           \* the nodes assigned to a property of their container
  wired              \* per container: its members at its last init()

vars == <<value, listeners, history, historyIndex, useHistory,
          skipSerialization, options, isInitialized,
          hasWarned, warnings, nextSetter, log, calls, last, pre,
          setup, thrown, deep, present, wired>>

----------------------------------------------------------------------------
(* Bounds of the model *)

MaxListeners == 2
MaxSetters == 2
MaxDepth == 3
MaxHistory == 3
MaxNum == 2
MaxWarnings == 3

----------------------------------------------------------------------------
(* The object tree: root { top: Atom, child: { leaf: Atom } } *)

Containers == {"root", "child"}
Atoms == {"top", "leaf"}
Nodes == Containers \cup Atoms

members == [root |-> <<"top", "child">>, child |-> <<"leaf">>]

(* Object.values(this) of container c that are atoms or containers, in
   insertion order: a member assigned late is the last of its container *)
Properties(c) == SelectSeq(members[c], LAMBDA m : m \in present)

Events == {"beforeChange", "change", "addHistory"}
ChangeEvents == {"beforeChange", "change"}

(* Values: numbers compare by value, NaN never equals itself, objects by
   reference (ref); n is the content of the value. *)
Num(n) == [t |-> "num", n |-> n, ref |-> 0, props |-> <<>>]
NaN == [t |-> "nan", n |-> 0, ref |-> 0, props |-> <<>>]
Undefined == [t |-> "undef", n |-> 0, ref |-> 0, props |-> <<>>]
Null == [t |-> "null", n |-> 0, ref |-> 0, props |-> <<>>]

(* an object: its identity ref and its own properties in insertion order,
   each a key k with a value v *)
Obj(ref, props) == [t |-> "obj", n |-> 0, ref |-> ref, props |-> props]
Prop(k, v) == [k |-> k, v |-> v]
NumValues == {Num(n) : n \in 0..MaxNum}

(* === treating NaN as equal to itself *)
StrictEquals_SameValue(x, y) ==
  IF x.t # y.t THEN FALSE
  ELSE IF x.t = "obj" THEN x.ref = y.ref
  ELSE x.n = y.n

StrictEquals(x, y) ==
  IF x.t = "nan" \/ y.t = "nan" THEN FALSE
  ELSE IF x.t # y.t THEN FALSE
  ELSE IF x.t = "obj" THEN x.ref = y.ref
  ELSE x.n = y.n

(* deepEqual of fast-equals: identical references are equal; two objects
   are equal when they have as many own keys and every key of the first is
   a key of the second with a deeply equal value; otherwise the values are
   equal only when both are NaN (a !== a && b !== b) *)
RECURSIVE DeepEqual(_, _)
DeepEqual(a, b) ==
  IF StrictEquals(a, b) THEN TRUE
  ELSE IF a.t = "obj" /\ b.t = "obj"
  THEN /\ Len(a.props) = Len(b.props)
       /\ \A i \in 1..Len(a.props) :
            \E j \in 1..Len(b.props) :
              /\ b.props[j].k = a.props[i].k
              /\ DeepEqual(a.props[i].v, b.props[j].v)
  ELSE a.t = "nan" /\ b.t = "nan"

(* Constructor options, a key left out being "unset".  AtomContainer stores
   options?.skipSerialization ?? options?.isSkipSerialization ?? false;
   Atom stores options?.isSkipSerialization ?? false. *)
NoOptions == [skipSerialization |-> "unset", isSkipSerialization |-> "unset"]
Modern(b) == [skipSerialization |-> b, isSkipSerialization |-> "unset"]
Legacy(b) == [skipSerialization |-> "unset", isSkipSerialization |-> b]

SkipSerializationOf(o) ==
  IF o.skipSerialization # "unset" THEN o.skipSerialization = "true"
  ELSE IF o.isSkipSerialization # "unset" THEN o.isSkipSerialization = "true"
  ELSE FALSE

IsSkipSerializationOf(o) == o.isSkipSerialization = "true"

StoredFlag(n, o) ==
  IF n \in Containers THEN SkipSerializationOf(o) ELSE IsSkipSerializationOf(o)

(* atom.value read: Atom defines get value(); ObjectAtom redefines the
   accessor value with a setter alone, which leaves it without a getter, so
   that the read gives undefined *)
GetValue(val, a) == IF deep[a] THEN Undefined ELSE val[a]

(* AtomEventArgs, and the absent payload of addHistory *)
AtomEventArgs(a, newValue, oldValue) ==
  [from |-> a, value |-> newValue, valueFrom |-> oldValue]
NoArgs == [from |-> "none", value |-> Undefined, valueFrom |-> Undefined]

(* Listener functions.  kind "fwd": the forwarding listener of container c
   for the event it is registered under; "history": c._historyListener;
   "spy": an application listener that records what it is given (it is
   identified by its position in the listener array); "setter": an
   application listener that assigns v to atom c. *)
ForwardListener(c) == [kind |-> "fwd", c |-> c, v |-> Undefined]
HistoryListenerOf(c) == [kind |-> "history", c |-> c, v |-> Undefined]
SpyListener == [kind |-> "spy", c |-> "none", v |-> Undefined]
SetterListener(a, v) == [kind |-> "setter", c |-> a, v |-> v]
MutatorListener(v) == [kind |-> "mutator", c |-> "none", v |-> v]
ThrowingListener == [kind |-> "thrower", c |-> "none", v |-> Undefined]

Includes(seq, x) == \E i \in 1..Len(seq) : seq[i] = x
Count(seq, x) == Cardinality({i \in 1..Len(seq) : seq[i] = x})

----------------------------------------------------------------------------
(* The evaluation record threaded through one public call *)

Eval ==
  [value |-> value, history |-> history, historyIndex |-> historyIndex,
   isInitialized |-> isInitialized, hasWarned |-> hasWarned,
   warnings |-> warnings, log |-> <<>>, calls |-> <<>>, arg |-> NoArgs,
   depth |-> 0, overflow |-> FALSE, thrown |-> "none"]

Min(x, y) == IF x < y THEN x ELSE y

----------------------------------------------------------------------------
(* InitValidationHelper *)

(* markInitialized clearing the warning latch as well *)
MarkInitialized_Reset(s, c) ==
  [s EXCEPT !.isInitialized[c] = TRUE, !.hasWarned[c] = FALSE]

(* markInitialized leaving the flag as it is *)
MarkInitialized_Noop(s, c) == s

MarkInitialized(s, c) == [s EXCEPT !.isInitialized[c] = TRUE]

(* validateInitialized warning without remembering that it did *)
ValidateInitialized_NoLatch(s, c, operationName) ==
  IF ~s.isInitialized[c] /\ ~s.hasWarned[c]
  THEN [s EXCEPT !.warnings = Append(@, [c |-> c, op |-> operationName])]
  ELSE s

ValidateInitialized(s, c, operationName) ==
  IF ~s.isInitialized[c] /\ ~s.hasWarned[c]
  THEN [s EXCEPT !.warnings = Append(@, [c |-> c, op |-> operationName]),
                 !.hasWarned[c] = TRUE]
  ELSE s

ResetWarningState(s, c) == [s EXCEPT !.hasWarned[c] = FALSE]

----------------------------------------------------------------------------
(* AtomContainer.toObject: one entry per non-skipped member, in member
   order; a member container becomes a nested object (sub). *)

(* member.skipSerialization as toObject reads it: the field of a member
   container; an Atom declares no such property (its flag is the protected
   _isSkipSerialization), so the read gives undefined, which is falsy *)
SkipSerializationProperty(m) ==
  IF m \in Containers THEN skipSerialization[m] ELSE FALSE

RECURSIVE ToObjectFrom(_, _, _)
ToObjectFrom(val, c, i) ==
  IF i > Len(Properties(c)) THEN <<>>
  ELSE LET m == Properties(c)[i]
           rest == ToObjectFrom(val, c, i + 1)
       IN IF m \in Containers /\ ~SkipSerializationProperty(m)
          THEN <<[k |-> m, isObj |-> TRUE, v |-> Undefined,
                  sub |-> ToObjectFrom(val, m, 1)]>> \o rest
          ELSE IF m \in Atoms /\ ~SkipSerializationProperty(m)
          THEN <<[k |-> m, isObj |-> FALSE, v |-> GetValue(val, m),
                  sub |-> <<>>]>>
               \o rest
          ELSE rest

ToObject(val, c) == ToObjectFrom(val, c, 1)

(* addHistory pushing without truncating at the new cursor *)
AddHistory_KeepTail(s, c) ==
  LET s1 == ValidateInitialized(s, c, "addHistory") IN
  IF ~useHistory[c] THEN s1
  ELSE [s1 EXCEPT !.historyIndex[c] = @ + 1,
                  !.history[c] = Append(@, ToObject(s1.value, c))]

(* addHistory recording although history is disabled *)
AddHistory_NoFlagCheck(s, c) ==
  LET s1 == ValidateInitialized(s, c, "addHistory")
      i == s1.historyIndex[c] + 1
      kept == SubSeq(s1.history[c], 1, Min(i, Len(s1.history[c])))
  IN [s1 EXCEPT !.historyIndex[c] = i,
                !.history[c] = Append(kept, ToObject(s1.value, c))]

(* AtomContainer.addHistory *)
AddHistory(s, c) ==
  LET s1 == ValidateInitialized(s, c, "addHistory") IN
  IF ~useHistory[c] THEN s1
  ELSE LET i == s1.historyIndex[c] + 1
           kept == SubSeq(s1.history[c], 1, Min(i, Len(s1.history[c])))
       IN [s1 EXCEPT !.historyIndex[c] = i,
                     !.history[c] = Append(kept, ToObject(s1.value, c))]

----------------------------------------------------------------------------
(* Event dispatch, Atom.set value and Atom.updateValue *)

RECURSIVE EmitFrom(_, _, _, _)
RECURSIVE Emit(_, _, _)
RECURSIVE Forward(_, _, _)
RECURSIVE SetValue(_, _, _)
RECURSIVE UpdateValue(_, _, _, _)

(* What an application spy records: the payload it is given and the value
   the originating atom holds at that moment. *)
SpyRecord(s, i, n, ev) ==
  [id |-> i, n |-> n, ev |-> ev, from |-> s.arg.from,
   value |-> s.arg.value, valueFrom |-> s.arg.valueFrom,
   seen |-> IF s.arg.from \in Atoms THEN GetValue(s.value, s.arg.from)
            ELSE Undefined]

CallRecord(k, n, ev, arg) ==
  [k |-> k, n |-> n, ev |-> ev, from |-> arg.from, v |-> arg.value,
   vf |-> arg.valueFrom]

(* emit(ev) on node n, from listener i on: the listeners of n for ev run
   synchronously in registration order. *)
EmitFrom(s, n, ev, i) ==
  IF s.overflow \/ s.thrown # "none" \/ i > Len(listeners[n][ev]) THEN s
  ELSE LET l == listeners[n][ev][i]
           s1 == CASE l.kind = "fwd" -> Forward(s, l.c, ev)
                   [] l.kind = "history" -> AddHistory(s, l.c)
                   [] l.kind = "spy" ->
                        [s EXCEPT !.log = Append(@, SpyRecord(s, i, n, ev))]
                   [] l.kind = "setter" -> SetValue(s, l.c, l.v)
                   [] l.kind = "mutator" ->
                        [s EXCEPT !.arg.value = l.v, !.arg.valueFrom = l.v]
                   [] l.kind = "thrower" ->
                        [s EXCEPT !.thrown = "Error",
                           !.calls = Append(@, CallRecord("throw", n, ev, s.arg))]
       IN EmitFrom(s1, n, ev, i + 1)

(* node.emit(ev, arg), with the payload in s.arg *)
Emit(s, n, ev) ==
  EmitFrom([s EXCEPT !.calls = Append(@, CallRecord("emit", n, ev, s.arg))],
           n, ev, 1)

(* a forwarder that re-emits with itself as the origin *)
Forward_Rewrap(s, c, ev) == Emit([s EXCEPT !.arg.from = c], c, ev)

(* a forwarder of addHistory that records a checkpoint itself as well *)
Forward_Record(s, c, ev) ==
  IF ev = "addHistory" THEN Emit(AddHistory(s, c), c, ev) ELSE Emit(s, c, ev)

(* _beforeChangeListener, _changeListener, _addHistoryListener of c *)
Forward(s, c, ev) == Emit(s, c, ev)

(* updateValue dispatching change twice *)
UpdateValue_ChangeTwice(s, a, oldValue, newValue) ==
  IF s.depth >= MaxDepth THEN [s EXCEPT !.overflow = TRUE]
  ELSE
    LET args == AtomEventArgs(a, newValue, oldValue)
        s0 == [s EXCEPT !.depth = @ + 1, !.arg = args]
        s1 == Emit(s0, a, "beforeChange")
        s2 == [s1 EXCEPT !.value[a] = newValue, !.arg = args,
                 !.calls = Append(@, CallRecord("store", a, "", args))]
        s3 == Emit(Emit(s2, a, "change"), a, "change")
    IN [s3 EXCEPT !.depth = s.depth, !.arg = s.arg]

(* updateValue dispatching change before beforeChange *)
UpdateValue_ChangeFirst(s, a, oldValue, newValue) ==
  IF s.depth >= MaxDepth THEN [s EXCEPT !.overflow = TRUE]
  ELSE
    LET args == AtomEventArgs(a, newValue, oldValue)
        s0 == [s EXCEPT !.depth = @ + 1, !.arg = args]
        s1 == Emit(s0, a, "change")
        s2 == [s1 EXCEPT !.value[a] = newValue, !.arg = args,
                 !.calls = Append(@, CallRecord("store", a, "", args))]
        s3 == Emit(s2, a, "beforeChange")
    IN [s3 EXCEPT !.depth = s.depth, !.arg = s.arg]

(* updateValue storing the old value again *)
UpdateValue_KeepOld(s, a, oldValue, newValue) ==
  IF s.depth >= MaxDepth THEN [s EXCEPT !.overflow = TRUE]
  ELSE
    LET args == AtomEventArgs(a, newValue, oldValue)
        s0 == [s EXCEPT !.depth = @ + 1, !.arg = args]
        s1 == Emit(s0, a, "beforeChange")
        s2 == [s1 EXCEPT !.value[a] = oldValue, !.arg = args,
                 !.calls = Append(@, CallRecord("store", a, "", args))]
        s3 == Emit(s2, a, "change")
    IN [s3 EXCEPT !.depth = s.depth, !.arg = s.arg]

(* updateValue storing the value before it dispatches beforeChange *)
UpdateValue_StoreFirst(s, a, oldValue, newValue) ==
  IF s.depth >= MaxDepth THEN [s EXCEPT !.overflow = TRUE]
  ELSE
    LET args == AtomEventArgs(a, newValue, oldValue)
        s0 == [s EXCEPT !.depth = @ + 1, !.arg = args,
                 !.value[a] = newValue,
                 !.calls = Append(@, CallRecord("store", a, "", args))]
        s1 == Emit(s0, a, "beforeChange")
        s2 == [s1 EXCEPT !.arg = args]
        s3 == Emit(s2, a, "change")
    IN [s3 EXCEPT !.depth = s.depth, !.arg = s.arg]

(* updateValue requesting a checkpoint after every change *)
UpdateValue_AutoHistory(s, a, oldValue, newValue) ==
  IF s.depth >= MaxDepth THEN [s EXCEPT !.overflow = TRUE]
  ELSE
    LET args == AtomEventArgs(a, newValue, oldValue)
        s0 == [s EXCEPT !.depth = @ + 1, !.arg = args]
        s1 == Emit(s0, a, "beforeChange")
        s2 == [s1 EXCEPT !.value[a] = newValue, !.arg = args,
                 !.calls = Append(@, CallRecord("store", a, "", args))]
        s3 == Emit(s2, a, "change")
        s4 == Emit([s3 EXCEPT !.arg = NoArgs], a, "addHistory")
    IN [s4 EXCEPT !.depth = s.depth, !.arg = s.arg]

(* updateValue handing the object it gave to beforeChange on to the store
   and to change *)
UpdateValue_SharedPayload(s, a, oldValue, newValue) ==
  IF s.depth >= MaxDepth THEN [s EXCEPT !.overflow = TRUE]
  ELSE
    LET args == AtomEventArgs(a, newValue, oldValue)
        s0 == [s EXCEPT !.depth = @ + 1, !.arg = args]
        s1 == Emit(s0, a, "beforeChange")
        s2 == [s1 EXCEPT !.value[a] = s1.arg.value,
                 !.calls = Append(@, CallRecord("store", a, "", s1.arg))]
        s3 == IF s1.thrown # "none" THEN s1 ELSE Emit(s2, a, "change")
    IN [s3 EXCEPT !.depth = s.depth, !.arg = s.arg]

(* updateValue storing and emitting change whatever beforeChange did *)
UpdateValue_CatchAll(s, a, oldValue, newValue) ==
  IF s.depth >= MaxDepth THEN [s EXCEPT !.overflow = TRUE]
  ELSE
    LET args == AtomEventArgs(a, newValue, oldValue)
        s0 == [s EXCEPT !.depth = @ + 1, !.arg = args]
        s1 == Emit(s0, a, "beforeChange")
        s2 == [s1 EXCEPT !.value[a] = newValue, !.arg = args,
                 !.thrown = "none",
                 !.calls = Append(@, CallRecord("store", a, "", args))]
        s3 == [Emit(s2, a, "change") EXCEPT !.thrown = s1.thrown]
    IN [s3 EXCEPT !.depth = s.depth, !.arg = s.arg]

UpdateValue(s, a, oldValue, newValue) ==
  IF s.depth >= MaxDepth THEN [s EXCEPT !.overflow = TRUE]
  ELSE
    LET args == AtomEventArgs(a, newValue, oldValue)
        s0 == [s EXCEPT !.depth = @ + 1, !.arg = args]
        s1 == Emit(s0, a, "beforeChange")
        s2 == [s1 EXCEPT !.value[a] = newValue, !.arg = args,
                 !.calls = Append(@, CallRecord("store", a, "", args))]
        s3 == IF s1.thrown # "none" THEN s1 ELSE Emit(s2, a, "change")
    IN [s3 EXCEPT !.depth = s.depth, !.arg = s.arg]

(* the setter without its equality gate *)
SetValue_NoGate(s, a, newValue) ==
  UpdateValue([s EXCEPT !.calls = Append(@,
                 CallRecord("set", a, "",
                            AtomEventArgs(a, newValue, s.value[a])))],
              a, s.value[a], newValue)

(* ObjectAtom comparing as Atom does *)
SetValue_IdentityOnly(s, a, newValue) ==
  LET s0 == [s EXCEPT !.calls = Append(@,
                 CallRecord("set", a, "",
                            AtomEventArgs(a, newValue, s.value[a])))]
  IN IF StrictEquals(s.value[a], newValue) THEN s0
     ELSE UpdateValue(s0, a, s.value[a], newValue)

SetValue(s, a, newValue) ==
  LET s0 == [s EXCEPT !.calls = Append(@,
                 CallRecord("set", a, "",
                            AtomEventArgs(a, newValue, s.value[a])))]
  IN IF deep[a]
     THEN IF DeepEqual(s.value[a], newValue) THEN s0
          ELSE UpdateValue(s0, a, s.value[a], newValue)
     ELSE IF StrictEquals(s.value[a], newValue) THEN s0
          ELSE UpdateValue(s0, a, s.value[a], newValue)

----------------------------------------------------------------------------
(* AtomContainer.fromObject, undo, redo, load *)

(* entries of a plain object: a value under key k, or a nested object *)
AtomEntry(k, v) == [k |-> k, isObj |-> FALSE, v |-> v, sub |-> <<>>]
ObjEntry(k, sub) == [k |-> k, isObj |-> TRUE, v |-> Undefined, sub |-> sub]

RECURSIVE FromObjectFrom(_, _, _, _)
RECURSIVE FromObject(_, _, _)
RECURSIVE FromObjectOf(_, _, _)

(* fromObject not descending into member containers *)
RECURSIVE FromObjectFrom_Shallow(_, _, _, _)
FromObjectFrom_Shallow(s, c, obj, i) ==
  IF s.overflow \/ i > Len(obj) THEN s
  ELSE LET e == obj[i]
           s1 == IF ~Includes(Properties(c), e.k) \/ e.k \in Containers THEN s
                 ELSE SetValue(s, e.k, e.v)
       IN FromObjectFrom_Shallow(s1, c, obj, i + 1)

(* fromObject walking the entries of obj from the last to the first *)
RECURSIVE FromObjectFrom_Backwards(_, _, _, _)
FromObjectFrom_Backwards(s, c, obj, i) ==
  IF s.overflow \/ s.thrown # "none" \/ i > Len(obj) THEN s
  ELSE LET e == obj[i]
           s0 == FromObjectFrom_Backwards(s, c, obj, i + 1)
       IN IF ~Includes(Properties(c), e.k) THEN s0
          ELSE IF e.k \in Containers THEN FromObjectOf(s0, e.k, e)
          ELSE SetValue(s0, e.k, e.v)

(* fromObject assigning a cell of the tree under any key that is its name *)
RECURSIVE FromObjectFrom_AnyKey(_, _, _, _)
FromObjectFrom_AnyKey(s, c, obj, i) ==
  IF s.overflow \/ s.thrown # "none" \/ i > Len(obj) THEN s
  ELSE LET e == obj[i]
           s1 == IF e.k \in Atoms THEN SetValue(s, e.k, e.v)
                 ELSE IF ~Includes(Properties(c), e.k) THEN s
                 ELSE FromObjectOf(s, e.k, e)
       IN FromObjectFrom_AnyKey(s1, c, obj, i + 1)

(* the loop of fromObject over Object.entries(obj), from entry i on: a key
   that names no member is ignored; an exception ends the loop *)
FromObjectFrom(s, c, obj, i) ==
  IF s.overflow \/ s.thrown # "none" \/ i > Len(obj) THEN s
  ELSE LET e == obj[i]
           s1 == IF ~Includes(Properties(c), e.k) THEN s
                 ELSE IF e.k \in Containers THEN FromObjectOf(s, e.k, e)
                 ELSE SetValue(s, e.k, e.v)
       IN FromObjectFrom(s1, c, obj, i + 1)

(* fromObject requesting a checkpoint when it is done *)
FromObject_Record(s, c, obj) ==
  Emit([FromObjectFrom(ValidateInitialized(s, c, "fromObject"), c, obj, 1)
          EXCEPT !.arg = NoArgs], c, "addHistory")

(* fromObject returning after the warning *)
FromObject_Blocking(s, c, obj) ==
  IF s.isInitialized[c]
  THEN FromObjectFrom(ValidateInitialized(s, c, "fromObject"), c, obj, 1)
  ELSE ValidateInitialized(s, c, "fromObject")

FromObject(s, c, obj) ==
  FromObjectFrom(ValidateInitialized(s, c, "fromObject"), c, obj, 1)

(* fromObject given any value e: Object.entries of a number is empty, and
   of null or undefined it throws a TypeError *)
FromObjectOf(s, c, e) ==
  IF e.isObj THEN FromObject(s, c, e.sub)
  ELSE LET s1 == ValidateInitialized(s, c, "fromObject")
       IN IF e.v.t \in {"null", "undef"}
          THEN [s1 EXCEPT !.thrown = "TypeError"]
          ELSE s1

(* the checkpoint at cursor i (a 0-based index into _history) *)
Checkpoint(h, i) == h[i + 1]

(* undo stepping back from the first entry too *)
Undo_OffByOne(s, c) ==
  LET s1 == ValidateInitialized(s, c, "undo") IN
  IF ~useHistory[c] \/ s1.historyIndex[c] < 0 THEN s1
  ELSE LET i == s1.historyIndex[c] - 1
       IN IF i < 0 THEN [s1 EXCEPT !.historyIndex[c] = i]
          ELSE FromObject([s1 EXCEPT !.historyIndex[c] = i], c,
                          Checkpoint(s1.history[c], i))

(* undo restoring the entry it stepped back from *)
Undo_StaleCheckpoint(s, c) ==
  LET s1 == ValidateInitialized(s, c, "undo") IN
  IF ~useHistory[c] \/ s1.historyIndex[c] <= 0 THEN s1
  ELSE LET i == s1.historyIndex[c] - 1
       IN FromObject([s1 EXCEPT !.historyIndex[c] = i], c,
                     Checkpoint(s1.history[c], i + 1))

(* undo dropping the entries after the cursor it moved to *)
Undo_Truncate(s, c) ==
  LET s1 == ValidateInitialized(s, c, "undo") IN
  IF ~useHistory[c] \/ s1.historyIndex[c] <= 0 THEN s1
  ELSE LET i == s1.historyIndex[c] - 1
       IN FromObject([s1 EXCEPT !.historyIndex[c] = i,
                                !.history[c] = SubSeq(@, 1, i + 1)], c,
                     Checkpoint(s1.history[c], i))

(* undo going back to the last recorded checkpoint when the state has
   moved on since it was taken *)
Undo_ToLastRecorded(s, c) ==
  LET s1 == ValidateInitialized(s, c, "undo") IN
  IF ~useHistory[c] \/ s1.historyIndex[c] < 0 THEN s1
  ELSE IF ToObject(s1.value, c) # Checkpoint(s1.history[c], s1.historyIndex[c])
  THEN FromObject(s1, c, Checkpoint(s1.history[c], s1.historyIndex[c]))
  ELSE IF s1.historyIndex[c] = 0 THEN s1
  ELSE LET i == s1.historyIndex[c] - 1
       IN FromObject([s1 EXCEPT !.historyIndex[c] = i], c,
                     Checkpoint(s1.history[c], i))

Undo(s, c) ==
  LET s1 == ValidateInitialized(s, c, "undo") IN
  IF ~useHistory[c] \/ s1.historyIndex[c] <= 0 THEN s1
  ELSE LET i == s1.historyIndex[c] - 1
       IN FromObject([s1 EXCEPT !.historyIndex[c] = i], c,
                     Checkpoint(s1.history[c], i))

(* redo stepping past the last entry *)
Redo_OffByOne(s, c) ==
  LET s1 == ValidateInitialized(s, c, "redo") IN
  IF ~useHistory[c] \/ s1.historyIndex[c] >= Len(s1.history[c]) THEN s1
  ELSE LET i == s1.historyIndex[c] + 1
       IN IF i >= Len(s1.history[c]) THEN [s1 EXCEPT !.historyIndex[c] = i]
          ELSE FromObject([s1 EXCEPT !.historyIndex[c] = i], c,
                          Checkpoint(s1.history[c], i))

(* redo moving the cursor without restoring the entry *)
Redo_NoRestore(s, c) ==
  LET s1 == ValidateInitialized(s, c, "redo") IN
  IF ~useHistory[c] \/ s1.historyIndex[c] >= Len(s1.history[c]) - 1 THEN s1
  ELSE [s1 EXCEPT !.historyIndex[c] = @ + 1]

Redo(s, c) ==
  LET s1 == ValidateInitialized(s, c, "redo") IN
  IF ~useHistory[c] \/ s1.historyIndex[c] >= Len(s1.history[c]) - 1 THEN s1
  ELSE LET i == s1.historyIndex[c] + 1
       IN FromObject([s1 EXCEPT !.historyIndex[c] = i], c,
                     Checkpoint(s1.history[c], i))

(* load keeping the checkpoints recorded before it *)
Load_KeepHistory(s, c, obj) ==
  AddHistory(FromObject(ValidateInitialized(s, c, "load"), c, obj), c)

(* load restoring the object without recording it as the baseline *)
Load_NoCheckpoint(s, c, obj) ==
  LET s1 == ValidateInitialized(s, c, "load")
      s2 == IF useHistory[c]
            THEN [s1 EXCEPT !.history[c] = <<>>, !.historyIndex[c] = -1]
            ELSE s1
  IN FromObject(s2, c, obj)

Load(s, c, obj) ==
  LET s1 == ValidateInitialized(s, c, "load")
      s2 == IF useHistory[c]
            THEN [s1 EXCEPT !.history[c] = <<>>, !.historyIndex[c] = -1]
            ELSE s1
      s3 == FromObject(s2, c, obj)
  IN IF s3.thrown # "none" THEN s3 ELSE AddHistory(s3, c)

----------------------------------------------------------------------------
(* AtomContainer.toJson, fromJson.  A JSON text is the sequence of its
   tokens; a bare word such as  json  is a token no JSON value starts with. *)

LBrace == [t |-> "{", s |-> "", n |-> 0]
RBrace == [t |-> "}", s |-> "", n |-> 0]
Colon == [t |-> ":", s |-> "", n |-> 0]
Comma == [t |-> ",", s |-> "", n |-> 0]
Str(k) == [t |-> "str", s |-> k, n |-> 0]
NumTok(n) == [t |-> "num", s |-> "", n |-> n]
NullTok == [t |-> "null", s |-> "", n |-> 0]
Word(w) == [t |-> "word", s |-> w, n |-> 0]

(* JSON.stringify: NaN is written as null, a property whose value is
   undefined is left out, properties are separated by commas *)
RECURSIVE JsonStringifyFrom(_, _, _)
RECURSIVE JsonStringify(_)
JsonStringifyFrom(obj, i, first) ==
  IF i > Len(obj) THEN <<>>
  ELSE LET e == obj[i]
           sep == IF first THEN <<>> ELSE <<Comma>>
           text == IF e.isObj THEN JsonStringify(e.sub)
                   ELSE IF e.v.t = "num" THEN <<NumTok(e.v.n)>>
                   ELSE <<NullTok>>
       IN IF ~e.isObj /\ e.v.t = "undef"
          THEN JsonStringifyFrom(obj, i + 1, first)
          ELSE sep \o <<Str(e.k), Colon>> \o text
                   \o JsonStringifyFrom(obj, i + 1, FALSE)

JsonStringify(obj) == <<LBrace>> \o JsonStringifyFrom(obj, 1, TRUE) \o <<RBrace>>

(* JSON.parse by recursive descent; the result of a step is the entry read
   (under the key "" until its property name is known) and the position of
   the next token, or a failure.  The texts parsed repeat no key. *)
ParseFail == [ok |-> FALSE, e |-> AtomEntry("", Undefined), next |-> 0]
ParseOk(e, next) == [ok |-> TRUE, e |-> e, next |-> next]

RECURSIVE ParseValue(_, _)
RECURSIVE ParseMembers(_, _, _)
ParseValue(toks, i) ==
  IF i > Len(toks) THEN ParseFail
  ELSE CASE toks[i].t = "num" -> ParseOk(AtomEntry("", Num(toks[i].n)), i + 1)
         [] toks[i].t = "null" -> ParseOk(AtomEntry("", Null), i + 1)
         [] toks[i].t = "{" ->
              IF i + 1 <= Len(toks) /\ toks[i + 1].t = "}"
              THEN ParseOk(ObjEntry("", <<>>), i + 2)
              ELSE ParseMembers(toks, i + 1, <<>>)
         [] OTHER -> ParseFail

ParseMembers(toks, i, acc) ==
  IF i + 1 > Len(toks) \/ toks[i].t # "str" \/ toks[i + 1].t # ":"
  THEN ParseFail
  ELSE LET r == ParseValue(toks, i + 2)
       IN IF ~r.ok \/ r.next > Len(toks) THEN ParseFail
          ELSE LET acc1 == Append(acc, [r.e EXCEPT !.k = toks[i].s])
               IN CASE toks[r.next].t = "}" ->
                         ParseOk(ObjEntry("", acc1), r.next + 1)
                    [] toks[r.next].t = "," ->
                         ParseMembers(toks, r.next + 1, acc1)
                    [] OTHER -> ParseFail

JsonParse(json) ==
  LET r == ParseValue(json, 1)
  IN IF r.ok /\ r.next = Len(json) + 1 THEN r ELSE ParseFail

ToJson(val, c) == JsonStringify(ToObject(val, c))

(* fromJson catching the parse error *)
FromJson_Swallow(s, c, json) ==
  LET s1 == ValidateInitialized(s, c, "fromJson")
      r == JsonParse(json)
  IN IF r.ok THEN FromObjectOf(s1, c, r.e) ELSE s1

FromJson(s, c, json) ==
  LET s1 == ValidateInitialized(s, c, "fromJson")
      r == JsonParse(json)
  IN IF r.ok THEN FromObjectOf(s1, c, r.e)
     ELSE [s1 EXCEPT !.thrown = "SyntaxError"]

----------------------------------------------------------------------------
(* AtomContainer.init, addMembers, add, initHistory *)

(* add registering only the change forwarder *)
Add_ChangeOnly(ls, c, m) ==
  [ls EXCEPT ![m]["change"] =
      IF Includes(@, ForwardListener(c)) THEN @
      ELSE Append(@, ForwardListener(c))]

(* add without the check for an already registered listener *)
Add_NoCheck(ls, c, m) ==
  [ls EXCEPT ![m] = [ev \in Events |-> Append(ls[m][ev], ForwardListener(c))]]

Add(ls, c, m) ==
  [ls EXCEPT ![m] = [ev \in Events |->
      IF Includes(ls[m][ev], ForwardListener(c)) THEN ls[m][ev]
      ELSE Append(ls[m][ev], ForwardListener(c))]]

(* addMembers wiring member atoms but not member containers *)
RECURSIVE AddMembersFrom_AtomsOnly(_, _, _)
AddMembersFrom_AtomsOnly(ls, c, i) ==
  IF i > Len(Properties(c)) THEN ls
  ELSE AddMembersFrom_AtomsOnly(
         IF Properties(c)[i] \in Atoms THEN Add(ls, c, Properties(c)[i]) ELSE ls,
         c, i + 1)

(* addMembers wiring also the members the container does not hold yet *)
RECURSIVE AddMembersFrom_All(_, _, _)
AddMembersFrom_All(ls, c, i) ==
  IF i > Len(members[c]) THEN ls
  ELSE AddMembersFrom_All(Add(ls, c, members[c][i]), c, i + 1)

RECURSIVE AddMembersFrom(_, _, _)
AddMembersFrom(ls, c, i) ==
  IF i > Len(Properties(c)) THEN ls
  ELSE AddMembersFrom(Add(ls, c, Properties(c)[i]), c, i + 1)

AddMembers(ls, c) == AddMembersFrom(ls, c, 1)

(* initHistory recording a checkpoint on every call *)
InitHistory_Always(s, ls, c) ==
  IF useHistory[c] THEN AddHistory(s, c) ELSE s

(* the listener part and the checkpoint part of initHistory *)
InitHistoryRegisters(ls, c) ==
  useHistory[c] /\ ~Includes(ls[c]["addHistory"], HistoryListenerOf(c))

InitHistoryListeners(ls, c) ==
  IF InitHistoryRegisters(ls, c)
  THEN [ls EXCEPT ![c]["addHistory"] = Append(@, HistoryListenerOf(c))]
  ELSE ls

InitHistory(s, ls, c) ==
  IF InitHistoryRegisters(ls, c) THEN AddHistory(s, c) ELSE s

----------------------------------------------------------------------------
(* Public calls *)

(* what is remembered of the call before the last one: whether it was an
   undo() that moved the cursor, on which container and from where *)
NoUndo == [c |-> "none", cursor |-> -1]
Undone ==
  IF last.op = "undo" /\ historyIndex[last.n] # pre.historyIndex[last.n]
  THEN [c |-> last.n, cursor |-> pre.historyIndex[last.n]]
  ELSE NoUndo

(* the serialized state of a history container at its first init(), kept
   until load() replaces its baseline *)
SetupAfter(s, op) ==
  IF /\ op.op = "init" /\ useHistory[op.n]
     /\ ~isInitialized[op.n] /\ history[op.n] = <<>>
  THEN [setup EXCEPT ![op.n] = <<ToObject(s.value, op.n)>>]
  ELSE IF op.op = "load" THEN [setup EXCEPT ![op.n] = <<>>]
  ELSE setup

Commit(s, op) ==
  /\ ~s.overflow
  /\ value' = s.value
  /\ history' = s.history
  /\ historyIndex' = s.historyIndex
  /\ isInitialized' = s.isInitialized
  /\ hasWarned' = s.hasWarned
  /\ warnings' = s.warnings
  /\ log' = s.log
  /\ calls' = s.calls
  /\ last' = op
  /\ pre' = [value |-> value, history |-> history,
             historyIndex |-> historyIndex, isInitialized |-> isInitialized,
             listeners |-> listeners, undone |-> Undone,
             hasWarned |-> hasWarned, warnings |-> warnings]
  /\ setup' = SetupAfter(s, op)
  /\ thrown' = s.thrown
  /\ wired' = IF op.op = "init"
              THEN [wired EXCEPT ![op.n] =
                      {m \in present : Includes(members[op.n], m)}]
              ELSE wired

Op(name, n, ev, v) == [op |-> name, n |-> n, ev |-> ev, v |-> v]
OpObj(name, c, obj) ==
  [op |-> name, n |-> c, ev |-> "", v |-> Undefined, obj |-> obj]

(* atom.value = v *)
Set(a, v) ==
  /\ Commit(SetValue(Eval, a, v), Op("set", a, "", v))
  /\ UNCHANGED <<listeners, useHistory, skipSerialization, options, nextSetter, deep, present>>

(* container.init() *)
DoInit(c) ==
  LET s1 == MarkInitialized(Eval, c)
      ls1 == AddMembers(listeners, c)
  IN /\ listeners' = InitHistoryListeners(ls1, c)
     /\ Commit(InitHistory(s1, ls1, c), Op("init", c, "", Undefined))
     /\ UNCHANGED <<useHistory, skipSerialization, options, nextSetter, deep, present>>

(* container.addHistory() *)
DoAddHistory(c) ==
  /\ historyIndex[c] + 1 < MaxHistory
  /\ Commit(AddHistory(Eval, c), Op("addHistory", c, "", Undefined))
  /\ UNCHANGED <<listeners, useHistory, skipSerialization, options, nextSetter, deep, present>>

(* node.emit("addHistory") *)
DoEmitAddHistory(n) ==
  /\ \A c \in Containers : historyIndex[c] + 1 < MaxHistory
  /\ Commit(Emit(Eval, n, "addHistory"), Op("emit", n, "addHistory", Undefined))
  /\ UNCHANGED <<listeners, useHistory, skipSerialization, options, nextSetter, deep, present>>

(* container.undo() *)
DoUndo(c) ==
  /\ Commit(Undo(Eval, c), Op("undo", c, "", Undefined))
  /\ UNCHANGED <<listeners, useHistory, skipSerialization, options, nextSetter, deep, present>>

(* container.redo() *)
DoRedo(c) ==
  /\ Commit(Redo(Eval, c), Op("redo", c, "", Undefined))
  /\ UNCHANGED <<listeners, useHistory, skipSerialization, options, nextSetter, deep, present>>

(* container.load(obj) *)
DoLoad(c, obj) ==
  /\ Commit(Load(Eval, c, obj), OpObj("load", c, obj))
  /\ UNCHANGED <<listeners, useHistory, skipSerialization, options, nextSetter, deep, present>>

(* container.toObject() *)
DoToObject(c) ==
  /\ Commit(Eval, OpObj("toObject", c, ToObject(value, c)))
  /\ UNCHANGED <<listeners, useHistory, skipSerialization, options, nextSetter, deep, present>>

(* container.fromObject(obj) *)
DoFromObject(c, obj) ==
  /\ Commit(FromObject(Eval, c, obj), OpObj("fromObject", c, obj))
  /\ UNCHANGED <<listeners, useHistory, skipSerialization, options, nextSetter, deep, present>>

(* container.m = node, after the constructor of the container: the member
   becomes a property *)
DoAttach(m) ==
  /\ m \notin present
  /\ present' = present \cup {m}
  /\ Commit(Eval, Op("attach", m, "", Undefined))
  /\ UNCHANGED <<listeners, useHistory, skipSerialization, options, nextSetter, deep>>

(* atom.value, read *)
DoRead(a) ==
  /\ Commit(Eval, Op("get", a, "", GetValue(value, a)))
  /\ UNCHANGED <<listeners, useHistory, skipSerialization, options, nextSetter, deep, present>>

(* container.fromJson(json) *)
DoFromJson(c, json) ==
  /\ Commit(FromJson(Eval, c, json), OpObj("fromJson", c, json))
  /\ UNCHANGED <<listeners, useHistory, skipSerialization, options, nextSetter, deep, present>>

(* helper.resetWarningState(), on the helper of container c *)
DoResetWarningState(c) ==
  /\ Len(warnings) < MaxWarnings
  /\ Commit(ResetWarningState(Eval, c), Op("resetWarningState", c, "", Undefined))
  /\ UNCHANGED <<listeners, useHistory, skipSerialization, options, nextSetter, deep, present>>

(* node.on("beforeChange", spy); node.on("change", spy) *)
Observe(n) ==
  /\ Count(listeners[n]["change"], SpyListener) < MaxListeners
  /\ listeners' = [listeners EXCEPT
                     ![n]["beforeChange"] = Append(@, SpyListener),
                     ![n]["change"] = Append(@, SpyListener)]
  /\ Commit(Eval, Op("on", n, "", Undefined))
  /\ UNCHANGED <<useHistory, skipSerialization, options, nextSetter, deep, present>>

(* atom.on(ev, () => { target.value = v }) *)
OnSetter(n, ev, target, v) ==
  /\ nextSetter < MaxSetters
  /\ nextSetter' = nextSetter + 1
  /\ listeners' = [listeners EXCEPT ![n][ev] =
                     Append(@, SetterListener(target, v))]
  /\ Commit(Eval, Op("onSetter", n, ev, v))
  /\ UNCHANGED <<useHistory, skipSerialization, options, deep, present>>

(* node.on("beforeChange", (arg) => { arg.value = v; arg.valueFrom = v }) *)
OnMutator(n, v) ==
  /\ ~Includes(listeners[n]["beforeChange"], MutatorListener(v))
  /\ listeners' = [listeners EXCEPT ![n]["beforeChange"] =
                     Append(@, MutatorListener(v))]
  /\ Commit(Eval, Op("onMutator", n, "beforeChange", v))
  /\ UNCHANGED <<useHistory, skipSerialization, options, nextSetter, deep, present>>

(* node.on(ev, () => { throw new Error() }) *)
OnThrowing(n, ev) ==
  /\ ~Includes(listeners[n][ev], ThrowingListener)
  /\ listeners' = [listeners EXCEPT ![n][ev] = Append(@, ThrowingListener)]
  /\ Commit(Eval, Op("onThrowing", n, ev, Undefined))
  /\ UNCHANGED <<useHistory, skipSerialization, options, nextSetter, deep, present>>

----------------------------------------------------------------------------
(* State after construction: no listener, empty history, atoms at 0 *)

InitFields ==
  /\ value = [a \in Atoms |-> Num(0)]
  /\ listeners = [n \in Nodes |-> [ev \in Events |-> <<>>]]
  /\ history = [c \in Containers |-> <<>>]
  /\ historyIndex = [c \in Containers |-> -1]
  /\ isInitialized = [c \in Containers |-> FALSE]
  /\ hasWarned = [c \in Containers |-> FALSE]
  /\ warnings = <<>>
  /\ nextSetter = 0
  /\ log = <<>>
  /\ calls = <<>>
  /\ last = Op("new", "none", "", Undefined)
  /\ pre = [value |-> value, history |-> history,
            historyIndex |-> historyIndex, isInitialized |-> isInitialized,
            listeners |-> listeners, undone |-> NoUndo,
            hasWarned |-> hasWarned, warnings |-> warnings]
  /\ setup = [c \in Containers |-> <<>>]
  /\ thrown = "none"
  /\ wired = [c \in Containers |-> {}]

InitCommon ==
  /\ InitFields
  /\ present = Nodes
  /\ deep = [a \in Atoms |-> FALSE]
  /\ options = [n \in Nodes |-> NoOptions]
  /\ skipSerialization = [n \in Nodes |-> StoredFlag(n, options[n])]

(* Events: containers without history, setter calls, application spies on
   the path leaf - child - root *)
ObservedNodes == {"root", "child", "leaf"}

Init ==
  /\ InitCommon
  /\ useHistory = [c \in Containers |-> FALSE]

Next ==
  \/ \E a \in Atoms, v \in NumValues : Set(a, v)
  \/ \E c \in Containers : DoInit(c)
  \/ \E n \in ObservedNodes : Observe(n)

Spec == Init /\ [][Next]_vars

(* Re-entrancy: listeners that call a setter *)
SetterValues == {Num(1), Num(2)}

NextR ==
  \/ \E a \in Atoms, v \in NumValues : Set(a, v)
  \/ \E n \in Atoms, ev \in ChangeEvents, t \in Atoms, v \in SetterValues :
        OnSetter(n, ev, t, v)

SpecR == Init /\ [][NextR]_vars

(* History: containers with or without history *)
HistoryValues == {Num(0), Num(1)}

InitH ==
  /\ InitCommon
  /\ useHistory \in [Containers -> BOOLEAN]

NextH ==
  \/ \E v \in HistoryValues : Set("leaf", v)
  \/ \E c \in Containers : DoInit(c)
  \/ \E c \in Containers : DoAddHistory(c)

SpecH == InitH /\ [][NextH]_vars

(* addHistory emitted by any node, history enabled on any of the containers *)
NextE ==
  \/ \E v \in HistoryValues : Set("leaf", v)
  \/ \E c \in Containers : DoInit(c)
  \/ \E n \in Nodes : DoEmitAddHistory(n)

SpecE == InitH /\ [][NextE]_vars

(* Payloads: beforeChange listeners that overwrite the fields of the
   object they are given, on the cell or on a container above it, and
   spies registered before or after them *)
MutatedValue == Num(2)
PayloadValues == {Num(0), Num(1)}

NextP ==
  \/ \E v \in PayloadValues : Set("leaf", v)
  \/ \E c \in Containers : DoInit(c)
  \/ \E n \in {"leaf", "root"} : Observe(n)
  \/ \E n \in {"leaf", "child"} : OnMutator(n, MutatedValue)

SpecP == Init /\ [][NextP]_vars

(* Exceptions: listeners that throw, on the cell or on the root, for
   either event, beside spies on the cell *)
ThrowingNodes == {"leaf", "root"}

NextX ==
  \/ \E v \in PayloadValues : Set("leaf", v)
  \/ \E c \in Containers : DoInit(c)
  \/ Observe("leaf")
  \/ \E n \in ThrowingNodes, ev \in ChangeEvents : OnThrowing(n, ev)

SpecX == Init /\ [][NextX]_vars

(* fromJson and toJson, with history enabled on at most one container *)
InvalidTexts ==
  {<<LBrace, Str("invalid"), Colon, Word("json"), RBrace>>,
   <<LBrace, Str("leaf"), Colon, NumTok(1), Comma, Str("top"), Colon,
     Word("json"), RBrace>>,
   <<LBrace, Str("top"), Colon, NumTok(1), Comma, Str("child"), Colon,
     LBrace, Str("leaf"), Colon, NumTok(1)>>,
   <<LBrace, Str("leaf"), NumTok(1), RBrace>>,
   <<>>}

JsonValues == {Num(1), NaN}

JsonTexts ==
  {ToJson([top |-> Num(0), leaf |-> v], c) : v \in JsonValues, c \in Containers}
  \cup InvalidTexts \cup {<<NullTok>>, <<NumTok(1)>>}

InitJ ==
  /\ InitCommon
  /\ useHistory \in {u \in [Containers -> BOOLEAN] : ~(u["root"] /\ u["child"])}

NextJ ==
  \/ \E v \in JsonValues : Set("leaf", v)
  \/ \E c \in Containers : DoInit(c)
  \/ \E c \in Containers :
       (\A d \in Containers : isInitialized[d]) /\ DoAddHistory(c)
  \/ \E c \in Containers : \E json \in JsonTexts :
       (\A d \in Containers : isInitialized[d]) /\ DoFromJson(c, json)

SpecJ == InitJ /\ [][NextJ]_vars

(* Undo, redo and load: every history operation, with history enabled on
   at most one of the two containers *)
Objects ==
  {<<AtomEntry("leaf", v)>> : v \in HistoryValues}
  \cup {<<AtomEntry("top", Num(0)), ObjEntry("child", <<AtomEntry("leaf", w)>>)>> :
          w \in HistoryValues}

InitU ==
  /\ InitCommon
  /\ useHistory \in {u \in [Containers -> BOOLEAN] : ~(u["root"] /\ u["child"])}

(* the constructors of the tree have run: each ends with this.init() *)
Ready == \A c \in Containers : isInitialized[c]

NextU ==
  \/ \E v \in HistoryValues : Set("leaf", v)
  \/ \E c \in Containers : DoInit(c)
  \/ Ready /\ \E c \in Containers : DoAddHistory(c)
  \/ Ready /\ \E n \in Nodes : DoEmitAddHistory(n)
  \/ Ready /\ \E c \in Containers : DoUndo(c)
  \/ Ready /\ \E c \in Containers : DoRedo(c)
  \/ Ready /\ \E c \in Containers, obj \in Objects : DoLoad(c, obj)
  \/ Ready /\ \E c \in Containers, obj \in Objects : DoFromObject(c, obj)

SpecU == InitU /\ [][NextU]_vars

(* The initialization guard: every guarded operation on the root, and one
   on its member container, whether or not init() has run; history on the
   root at most *)
GuardObjects ==
  {<<AtomEntry("top", Num(0)), ObjEntry("child", <<AtomEntry("leaf", Num(1))>>)>>}

GuardTexts ==
  {JsonStringify(<<ObjEntry("child", <<AtomEntry("leaf", Num(1))>>)>>),
   <<LBrace, Str("invalid"), Colon, Word("json"), RBrace>>}

NextG ==
  \/ \E c \in Containers : DoInit(c)
  \/ DoAddHistory("root")
  \/ \E c \in Containers : DoUndo(c)
  \/ DoRedo("root")
  \/ \E obj \in GuardObjects : DoLoad("root", obj)
  \/ \E obj \in GuardObjects : DoFromObject("root", obj)
  \/ \E json \in GuardTexts : DoFromJson("root", json)

InitG ==
  /\ InitCommon
  /\ useHistory \in {u \in [Containers -> BOOLEAN] : ~u["child"]}

SpecG == InitG /\ [][NextG]_vars

(* The states of the initialization guard: guarded operations, init() and
   resetWarningState() on either helper, no history *)
InitV ==
  /\ InitCommon
  /\ useHistory = [c \in Containers |-> FALSE]

NextV ==
  \/ \E c \in Containers : DoInit(c)
  \/ \E c \in Containers : DoUndo(c)
  \/ \E c \in Containers : DoAddHistory(c)
  \/ \E obj \in GuardObjects : DoFromObject("root", obj)
  \/ \E c \in Containers : DoResetWarningState(c)

SpecV == InitV /\ [][NextV]_vars

(* Cells: a plain Atom (top) and a cell that is an Atom or an ObjectAtom
   (leaf), assigned numbers, NaN and objects; the objects come in two
   copies of each structure, flat, nested, and with two keys in either
   order *)
Copies == {1, 2}
Flat(n, r) == Obj(10 * n + r, <<Prop("age", Num(n))>>)
Nested(n, r) ==
  Obj(100 + 10 * n + r,
      <<Prop("user", Obj(200 + 10 * n + r, <<Prop("theme", Num(n))>>))>>)
PairA(r) == Obj(300 + r, <<Prop("name", Num(0)), Prop("age", NaN)>>)
PairB(r) == Obj(310 + r, <<Prop("age", NaN), Prop("name", Num(0))>>)

CellValues ==
  {Num(0), NaN}
  \cup {Flat(n, r) : n \in 0..1, r \in Copies}
  \cup {Nested(n, r) : n \in 0..1, r \in Copies}
  \cup {PairA(r) : r \in Copies} \cup {PairB(r) : r \in Copies}

InitC ==
  /\ InitFields
  /\ present = Nodes
  /\ options = [n \in Nodes |-> NoOptions]
  /\ skipSerialization = [n \in Nodes |-> StoredFlag(n, options[n])]
  /\ useHistory = [c \in Containers |-> FALSE]
  /\ deep \in {d \in [Atoms -> BOOLEAN] : ~d["top"]}

NextC ==
  \/ \E v \in CellValues : Set("leaf", v)
  \/ \E a \in Atoms : DoRead(a)

SpecC == InitC /\ [][NextC]_vars

(* Wiring: members assigned before or after init(), init() called any
   number of times, no history *)
LateMembers == {"leaf", "child"}
WiringValues == {Num(0), Num(1)}

InitM ==
  /\ InitFields
  /\ options = [n \in Nodes |-> NoOptions]
  /\ skipSerialization = [n \in Nodes |-> StoredFlag(n, options[n])]
  /\ useHistory = [c \in Containers |-> FALSE]
  /\ deep = [a \in Atoms |-> FALSE]
  /\ present \in {Nodes \ late : late \in SUBSET LateMembers}

NextM ==
  \/ \E a \in Atoms, v \in WiringValues : Set(a, v)
  \/ \E c \in Containers : DoInit(c)
  \/ \E m \in LateMembers : DoAttach(m)

SpecM == InitM /\ [][NextM]_vars

(* fromObject on either container, initialized or not, with objects whose
   keys come in the order of the members or in the other order *)
AssignedValues == {Num(1), NaN}

OrderedObjects ==
  UNION {{<<AtomEntry("top", v), ObjEntry("child", <<AtomEntry("leaf", w)>>)>>,
          <<ObjEntry("child", <<AtomEntry("leaf", w)>>), AtomEntry("top", v)>>} :
           v \in {Num(0), Num(1)}, w \in AssignedValues}
  \cup {<<AtomEntry("leaf", w)>> : w \in AssignedValues}

NextF ==
  \/ \E c \in Containers : DoInit(c)
  \/ \E c \in Containers, obj \in OrderedObjects : DoFromObject(c, obj)

SpecF == InitV /\ [][NextF]_vars

(* Serialization: members constructed with or without a skip option, no
   history; objects are snapshots of trees of the same shape *)
OptionChoices == {NoOptions, Modern("true"), Legacy("true")}
SerialValues == {Num(1), NaN}

Snapshots(c) == {ToObject(val, c) : val \in [Atoms -> SerialValues]}

(* objects with a key that names no member, alone or beside a member's *)
ForeignKey == "nonExistentProperty"
ForeignObjects ==
  {<<AtomEntry(ForeignKey, Num(1)), AtomEntry("leaf", NaN)>>,
   <<AtomEntry("top", Num(1)), AtomEntry(ForeignKey, Num(1)),
     ObjEntry("child", <<AtomEntry(ForeignKey, Num(1))>>)>>}

InitS ==
  /\ InitFields
  /\ present = Nodes
  /\ deep = [a \in Atoms |-> FALSE]
  /\ options \in {o \in [Nodes -> OptionChoices] :
                    o["root"] = NoOptions /\ o["top"] = NoOptions}
  /\ skipSerialization = [n \in Nodes |-> StoredFlag(n, options[n])]
  /\ useHistory = [c \in Containers |-> FALSE]

NextS ==
  \/ \E a \in Atoms, v \in SerialValues : Set(a, v)
  \/ \E c \in Containers : DoInit(c)
  \/ \E c, d \in Containers : \E obj \in Snapshots(d) : DoFromObject(c, obj)
  \/ \E c \in Containers : DoToObject(c)
  \/ \E c \in Containers : \E obj \in ForeignObjects : DoFromObject(c, obj)

SpecS == InitS /\ [][NextS]_vars

(* History over skipped members: the root records checkpoints, and its
   cell top or its member container child may have been constructed with a
   skip option *)
SkipObjects ==
  {<<AtomEntry("top", Num(1)), ObjEntry("child", <<AtomEntry("leaf", Num(1))>>)>>}

InitK ==
  /\ InitFields
  /\ present = Nodes
  /\ deep = [a \in Atoms |-> FALSE]
  /\ options \in {o \in [Nodes -> OptionChoices] :
                    /\ o["root"] = NoOptions /\ o["leaf"] = NoOptions
                    /\ o["child"] # Legacy("true")}
  /\ skipSerialization = [n \in Nodes |-> StoredFlag(n, options[n])]
  /\ useHistory = [c \in Containers |-> c = "root"]

NextK ==
  \/ \E a \in Atoms, v \in HistoryValues : Set(a, v)
  \/ \E c \in Containers : DoInit(c)
  \/ Ready /\ DoAddHistory("root")
  \/ Ready /\ DoUndo("root")
  \/ Ready /\ DoRedo("root")
  \/ Ready /\ \E obj \in SkipObjects : DoFromObject("root", obj)

SpecK == InitK /\ [][NextK]_vars

----------------------------------------------------------------------------
(* Vocabulary of the properties *)

IsMember(c, m) == Includes(members[c], m)

(* events of atom a reach container c through initialized containers *)
Covers(c, a) ==
  \/ IsMember(c, a) /\ isInitialized[c]
  \/ \E d \in Containers :
       /\ IsMember(c, d) /\ isInitialized[c]
       /\ IsMember(d, a) /\ isInitialized[d]

Spies(n, ev) ==
  {i \in 1..Len(listeners[n][ev]) : listeners[n][ev][i].kind = "spy"}

(* deliveries of ev to spy i of node n, and dispatches of ev on node n *)
Deliveries(n, ev, i) ==
  {j \in 1..Len(log) : log[j].n = n /\ log[j].ev = ev /\ log[j].id = i}
Dispatches(n, ev) ==
  {j \in 1..Len(calls) :
     calls[j].k = "emit" /\ calls[j].n = n /\ calls[j].ev = ev}

(* the last call was a setter call with a value equal / not equal to the
   one the atom held *)
LastSetEqual ==
  last.op = "set" /\ StrictEquals(pre.value[last.n], last.v)
LastSetChanged ==
  last.op = "set" /\ ~StrictEquals(pre.value[last.n], last.v)

(* no application listener was attached to n before a container wired n *)
AttachedAfterWiring(n) ==
  \A ev \in ChangeEvents :
    \A i, j \in 1..Len(listeners[n][ev]) :
      i < j => ~(listeners[n][ev][i].kind = "spy" /\
                 listeners[n][ev][j].kind = "fwd")

Trace == [j \in 1..Len(log) |-> <<log[j].n, log[j].ev>>]

----------------------------------------------------------------------------
(* Atom *)

\* C1: assigning through the setter a value equal to the current one fires
\* no beforeChange and no change, on the cell or on any ancestor container,
\* and leaves the stored value unchanged.
C1_EqualAssignmentIsSilent ==
  LastSetEqual =>
    /\ log = <<>>
    /\ \A j \in 1..Len(calls) : calls[j].k = "set"
    /\ value = pre.value

C1_Witness ==
  /\ LastSetEqual
  /\ last.n = "leaf" /\ last.v = Num(1)
  /\ Covers("child", "leaf") /\ Covers("root", "leaf")
  /\ \A n \in {"leaf", "child", "root"} : Spies(n, "change") # {}

\* C2: assigning a value x not equal to the current one delivers to each
\* listener of the cell exactly one beforeChange followed by exactly one
\* change, both with from = the cell, value = x, valueFrom = the old value.
C2_OneBeforeChangeThenOneChange ==
  LastSetChanged =>
    \A i \in Spies(last.n, "beforeChange") \cup Spies(last.n, "change") :
      LET b == Deliveries(last.n, "beforeChange", i)
          c == Deliveries(last.n, "change", i)
      IN /\ Cardinality(b) = 1
         /\ Cardinality(c) = 1
         /\ \A x \in b, y \in c : x < y
         /\ \A j \in b \cup c :
              /\ log[j].from = last.n
              /\ log[j].value = last.v
              /\ log[j].valueFrom = pre.value[last.n]

C2_Witness ==
  /\ LastSetChanged
  /\ Cardinality(Spies(last.n, "change")) = 2
  /\ pre.value[last.n] = Num(1) /\ last.v = Num(2)

----------------------------------------------------------------------------
(* Event forwarding *)

SamePayload(r) ==
  /\ r.from = last.n
  /\ r.value = last.v
  /\ r.valueFrom = pre.value[last.n]

\* C5: when a member cell of an initialized container changes, the
\* container and every initialized ancestor container emit the same event
\* type once, with from = the originating cell, value = the new value and
\* valueFrom = the previous value, and hand that payload to their listeners.
C5_ForwardedPayloadUnchanged ==
  LastSetChanged =>
    \A c \in Containers : Covers(c, last.n) =>
      \A ev \in ChangeEvents :
        /\ Cardinality(Dispatches(c, ev)) = 1
        /\ \A j \in Dispatches(c, ev) :
             /\ calls[j].from = last.n
             /\ calls[j].v = last.v
             /\ calls[j].vf = pre.value[last.n]
        /\ \A i \in Spies(c, ev) :
             /\ Cardinality(Deliveries(c, ev, i)) = 1
             /\ \A j \in Deliveries(c, ev, i) : SamePayload(log[j])

C5_Witness ==
  /\ LastSetChanged
  /\ last.n = "leaf"
  /\ Covers("child", "leaf") /\ Covers("root", "leaf")
  /\ Spies("root", "change") # {} /\ Spies("child", "change") # {}
  /\ pre.value["leaf"] = Num(2) /\ last.v = Num(1)

(* root and child initialized, one beforeChange and one change listener on
   each, attached after the containers were wired *)
OneListenerOnRootAndChild ==
  /\ isInitialized["root"] /\ isInitialized["child"]
  /\ AttachedAfterWiring("child")
  /\ \A ev \in ChangeEvents :
       /\ Cardinality(Spies("root", ev)) = 1
       /\ Cardinality(Spies("child", ev)) = 1

ContainerTrace ==
  SelectSeq(Trace, LAMBDA e : e[1] \in Containers)

C8_TypeThenRegistrationOrder ==
  LastSetChanged =>
    \A c \in Containers :
      \A j, k \in 1..Len(log) :
        (log[j].n = c /\ log[k].n = c /\ j < k) =>
          /\ ~(log[j].ev = "change" /\ log[k].ev = "beforeChange")
          /\ log[j].ev = log[k].ev => log[j].id < log[k].id

C8_Witness ==
  /\ LastSetChanged /\ last.n = "leaf"
  /\ Cardinality(Spies("root", "change")) = 2
  /\ Cardinality({j \in 1..Len(log) : log[j].n = "root"}) = 4

\* C9: after init() has been called any number of times (>= 1) on a
\* container, each member holds exactly one forwarding listener per event
\* type from that container, and each mutation of a member cell yields
\* exactly one forwarded beforeChange and one forwarded change on it.
C9_InitIdempotentForwarding ==
  \A c \in Containers : isInitialized[c] =>
    /\ \A i \in 1..Len(members[c]) : \A ev \in Events :
         Count(listeners[members[c][i]][ev], ForwardListener(c)) = 1
    /\ (LastSetChanged /\ Covers(c, last.n)) =>
         \A ev \in ChangeEvents :
           /\ Cardinality(Dispatches(c, ev)) = 1
           /\ \A i \in Spies(c, ev) : Cardinality(Deliveries(c, ev, i)) = 1

(* init() was called again on an initialized container *)
C9_Witness ==
  /\ last.op = "init" /\ pre.isInitialized[last.n]
  /\ last.n = "root"
  /\ Spies("root", "change") # {}
  /\ \A ev \in Events : Count(listeners["child"][ev], ForwardListener("root")) = 1

----------------------------------------------------------------------------
(* Re-entrant setter calls *)

SetCalls(a) == {j \in 1..Len(calls) : calls[j].k = "set" /\ calls[j].n = a}
Mutations(a) ==
  {j \in SetCalls(a) : ~StrictEquals(calls[j].vf, calls[j].v)}
Stores(a) == {j \in 1..Len(calls) : calls[j].k = "store" /\ calls[j].n = a}
Latest(S) == CHOOSE j \in S : \A k \in S : k <= j

(* every store of a is followed at once by one dispatch of change on a with
   the same payload, and change is dispatched on a at no other time *)
ChangeOncePerMutation(a) ==
  /\ Cardinality(Dispatches(a, "change")) = Cardinality(Stores(a))
  /\ \A j \in Stores(a) :
       /\ j + 1 \in Dispatches(a, "change")
       /\ calls[j + 1].v = calls[j].v
       /\ calls[j + 1].vf = calls[j].vf

(* no setter call on a was made while a beforeChange of a was being
   dispatched (between emit("beforeChange") and the store that follows) *)
NoSetInsideOwnBeforeChange(a) ==
  \A j \in SetCalls(a) :
    Cardinality({i \in Dispatches(a, "beforeChange") : i < j}) =
    Cardinality({i \in Stores(a) : i < j})

\* C4 as stated: after any successful mutation of a cell, the value is the
\* argument of the last (successful) setter call and change was dispatched
\* exactly once per mutation, setter calls made inside listeners included.
C4_LastArgumentWins_AsStated ==
  last.op = "set" =>
    \A a \in Atoms : Mutations(a) # {} =>
      /\ value[a] = calls[Latest(Mutations(a))].v
      /\ ChangeOncePerMutation(a)

\* C4: after any successful mutation of a cell, change was dispatched
\* exactly once for that mutation, and the value is exactly the last
\* argument passed to the setter provided no setter call on the cell was
\* made from inside one of its own beforeChange dispatches; setter calls
\* made from inside change listeners are covered.
C4_LastArgumentWins ==
  last.op = "set" =>
    \A a \in Atoms : Mutations(a) # {} =>
      /\ ChangeOncePerMutation(a)
      /\ NoSetInsideOwnBeforeChange(a) =>
           value[a] = calls[Latest(SetCalls(a))].v

(* a change listener of leaf assigned leaf again, then top *)
C4_Witness ==
  /\ last.op = "set" /\ last.n = "leaf"
  /\ Cardinality(Mutations("leaf")) = 2
  /\ Mutations("top") # {}
  /\ NoSetInsideOwnBeforeChange("leaf")
  /\ value["leaf"] # last.v

----------------------------------------------------------------------------
(* History set-up *)

----------------------------------------------------------------------------
(* History: cursor, checkpoints, undo, redo, load *)

Serialized(c) == ToObject(value, c)

(* the last call left values, events, checkpoints and cursors untouched *)
NothingChanged ==
  /\ value = pre.value
  /\ calls = <<>> /\ log = <<>>
  /\ history = pre.history
  /\ historyIndex = pre.historyIndex

(* every entry of obj that names a member of c was applied *)
RECURSIVE Applied(_, _)
Applied(obj, c) ==
  \A i \in 1..Len(obj) :
    Includes(members[c], obj[i].k) =>
      IF obj[i].k \in Containers THEN Applied(obj[i].sub, obj[i].k)
      ELSE value[obj[i].k] = obj[i].v

\* C11: in every reachable state, for every container, the history cursor
\* satisfies -1 <= cursor <= length-1, and the cursor is -1 exactly when
\* the history stack is empty.
C11_CursorInRange ==
  \A c \in Containers :
    /\ -1 <= historyIndex[c]
    /\ historyIndex[c] <= Len(history[c]) - 1
    /\ (historyIndex[c] = -1) <=> (history[c] = <<>>)

(* redo() at the last of three checkpoints, after two undo() and a redo() *)
C11_Witness ==
  /\ last.op = "redo" /\ useHistory["root"] /\ last.n = "root"
  /\ Len(history["root"]) = 3 /\ historyIndex["root"] = 2
  /\ pre.historyIndex["root"] = 2

\* C12: addHistory() on a history-enabled container with cursor k leaves
\* cursor k+1 and length k+2: entries 0..k are unchanged, every entry
\* beyond k is discarded, the new top entry is the current toObject(), and
\* a redo() right after it changes nothing.
C12_AddHistoryTruncatesAndPushes ==
  (last.op = "addHistory" /\ useHistory[last.n]) =>
    LET c == last.n
        k == pre.historyIndex[c]
        r == Redo(Eval, c)
    IN /\ historyIndex[c] = k + 1
       /\ Len(history[c]) = k + 2
       /\ \A i \in 1..(k + 1) : history[c][i] = pre.history[c][i]
       /\ history[c][k + 2] = Serialized(c)
       /\ r.value = value /\ r.historyIndex = historyIndex
       /\ r.history = history /\ r.calls = <<>>

(* addHistory() after two undo(): two redo entries are discarded *)
C12_Witness ==
  /\ last.op = "addHistory" /\ useHistory[last.n]
  /\ Len(pre.history[last.n]) = 3 /\ pre.historyIndex[last.n] = 0
  /\ Len(history[last.n]) = 2
  /\ history[last.n][2] # pre.history[last.n][2]

\* C13: with useHistory enabled, the checkpoint recorded at setup stays
\* the first entry whatever changes and addHistory() calls follow; every
\* undo() above it steps the cursor back by one and makes the serialized
\* state equal to the checkpoint under the cursor, so the undo() that
\* reaches the first entry restores the state at setup; an undo() at the
\* first entry changes nothing.
C13_UndoReturnsToSetup ==
  \A c \in Containers : (useHistory[c] /\ setup[c] # <<>>) =>
    /\ history[c] # <<>> /\ history[c][1] = setup[c][1]
    /\ (last.op = "undo" /\ last.n = c /\ pre.historyIndex[c] > 0) =>
         /\ historyIndex[c] = pre.historyIndex[c] - 1
         /\ history[c] = pre.history[c]
         /\ Serialized(c) = Checkpoint(history[c], historyIndex[c])
         /\ historyIndex[c] = 0 => Serialized(c) = setup[c][1]
    /\ (last.op = "undo" /\ last.n = c /\ pre.historyIndex[c] <= 0) =>
         NothingChanged

(* two rounds of change and addHistory(), then the second undo() *)
C13_Witness ==
  /\ last.op = "undo" /\ last.n = "root" /\ useHistory["root"]
  /\ setup["root"] # <<>>
  /\ Len(history["root"]) = 3
  /\ history["root"][1] # history["root"][2]
  /\ history["root"][2] # history["root"][3]
  /\ pre.historyIndex["root"] = 1 /\ historyIndex["root"] = 0
  /\ value # pre.value
  /\ pre.undone.c = "root" /\ pre.undone.cursor = 2

\* C14: a redo() right after an undo() that moved the cursor puts the
\* cursor back where it was before the undo() and makes the serialized
\* state equal to the checkpoint stored there; a redo() at the last entry
\* changes nothing.
C14_RedoAfterUndo ==
  last.op = "redo" =>
    LET c == last.n IN
    /\ pre.undone.c = c =>
         /\ historyIndex[c] = pre.undone.cursor
         /\ Serialized(c) = Checkpoint(history[c], historyIndex[c])
         /\ history[c] = pre.history[c]
    /\ (useHistory[c] /\ pre.historyIndex[c] >= Len(pre.history[c]) - 1) =>
         NothingChanged

(* undo() then redo() on the child container, the leaf changing back *)
C14_Witness ==
  /\ last.op = "redo" /\ last.n = "child" /\ pre.undone.c = "child"
  /\ pre.undone.cursor = 1
  /\ value["leaf"] # pre.value["leaf"]

\* C15: undo() with cursor <= 0 and redo() with cursor >= length-1 change
\* no member value, emit no beforeChange or change event, and leave the
\* history stack and the cursor as they were.
C15_BoundaryUndoRedoAreNoOps ==
  (\/ last.op = "undo" /\ pre.historyIndex[last.n] <= 0
   \/ last.op = "redo" /\
        pre.historyIndex[last.n] >= Len(pre.history[last.n]) - 1) =>
    NothingChanged

(* undo() at the first of two checkpoints, the state differing from it *)
C15_Witness ==
  /\ last.op = "undo" /\ useHistory[last.n]
  /\ historyIndex[last.n] = 0 /\ Len(history[last.n]) = 2
  /\ pre.historyIndex[last.n] = 0
  /\ Serialized(last.n) # history[last.n][1]

\* C16: load(obj) on a history-enabled container, whatever the history
\* before, applies obj and leaves exactly one checkpoint, equal to the
\* serialized state after the load, with the cursor at 0; an undo() or a
\* redo() right after it changes nothing.
C16_LoadResetsHistory ==
  (last.op = "load" /\ useHistory[last.n]) =>
    LET c == last.n
        u == Undo(Eval, c)
        r == Redo(Eval, c)
    IN /\ Applied(last.obj, c)
       /\ history[c] = <<Serialized(c)>>
       /\ historyIndex[c] = 0
       /\ u.value = value /\ u.historyIndex = historyIndex /\ u.calls = <<>>
       /\ r.value = value /\ r.historyIndex = historyIndex /\ r.calls = <<>>

(* load() with three checkpoints and the cursor in the middle *)
C16_Witness ==
  /\ last.op = "load" /\ useHistory[last.n]
  /\ Len(pre.history[last.n]) = 3 /\ pre.historyIndex[last.n] = 1
  /\ value # pre.value
  /\ Len(history[last.n]) = 1

\* C17: on a container with useHistory disabled the history stack stays
\* empty and the cursor stays -1 after any sequence of operations, load()
\* included; its addHistory(), undo() and redo() change no member value,
\* and neither does an addHistory event.
C17_DisabledHistoryIsInert ==
  /\ \A c \in Containers : ~useHistory[c] =>
       history[c] = <<>> /\ historyIndex[c] = -1
  /\ (last.op \in {"addHistory", "undo", "redo"} /\ ~useHistory[last.n]) =>
       NothingChanged
  /\ last.op = "emit" => value = pre.value

(* load() on a container without history changed the leaf *)
C17_Witness ==
  /\ last.op = "load" /\ ~useHistory[last.n]
  /\ value # pre.value
  /\ history[last.n] = <<>>

----------------------------------------------------------------------------
(* Serialization *)

\* C19: taking toObject() of a tree and applying it with fromObject() to
\* a tree of the same shape, whatever values that tree holds, yields a
\* tree whose toObject() equals the object.
C19_RoundTrip ==
  (last.op = "fromObject" /\ last.obj \in Snapshots(last.n)) =>
    Serialized(last.n) = last.obj

(* a snapshot of the whole tree applied to the root, both atoms changing,
   one of them to NaN *)
C19_Witness ==
  /\ last.op = "fromObject" /\ last.n = "root"
  /\ last.obj \in Snapshots("root") /\ Len(last.obj) = 2
  /\ value["top"] # pre.value["top"] /\ value["leaf"] # pre.value["leaf"]
  /\ value["leaf"] = NaN

(* the keys of an object, at any depth *)
RECURSIVE AllKeys(_)
AllKeys(obj) ==
  UNION {{obj[i].k} \cup AllKeys(obj[i].sub) : i \in 1..Len(obj)}

SkipRequested(n) ==
  options[n].skipSerialization = "true" \/
  options[n].isSkipSerialization = "true"

(* n lies below c, and n or a container between c and n was constructed
   with a skip option *)
SkippedIn(c, n) ==
  \/ IsMember(c, n) /\ SkipRequested(n)
  \/ \E d \in Containers :
       /\ IsMember(c, d) /\ IsMember(d, n)
       /\ (SkipRequested(d) \/ SkipRequested(n))

\* C20: a member constructed with skipSerialization: true, or with the
\* legacy isSkipSerialization: true, never appears as a key of toObject()'s
\* result, nor does any member below such a container, in any reachable
\* state.
C20_SkippedMembersAbsent ==
  \A c \in Containers, n \in Nodes :
    SkippedIn(c, n) => n \notin AllKeys(Serialized(c))

(* the object the documentation of toObject() describes: one key per member
   constructed without a skip option, in insertion order *)
RECURSIVE ExpectedObjectFrom(_, _, _)
ExpectedObjectFrom(val, c, i) ==
  IF i > Len(members[c]) THEN <<>>
  ELSE LET m == members[c][i]
           rest == ExpectedObjectFrom(val, c, i + 1)
       IN IF SkipRequested(m) THEN rest
          ELSE IF m \in Containers
          THEN <<ObjEntry(m, ExpectedObjectFrom(val, m, 1))>> \o rest
          ELSE <<AtomEntry(m, val[m])>> \o rest

\* C21: toObject() returns exactly one key per non-skipped member, in
\* member insertion order, a member cell mapped to its current raw value and
\* a member container to its own toObject(); the call changes no value,
\* emits no event and leaves history stack and cursor as they were.
C21_ToObjectListsNonSkippedMembers ==
  last.op = "toObject" =>
    /\ last.obj = ExpectedObjectFrom(value, last.n, 1)
    /\ NothingChanged

(* the keys of an object at its top level *)
TopKeys(obj) == {obj[i].k : i \in 1..Len(obj)}

(* atom a is named by obj when obj is applied to c: by a key of its own
   when it is a member of c, or inside the object under the key of the
   member container it belongs to *)
RECURSIVE NamedBy(_, _, _)
NamedBy(obj, c, a) ==
  \E i \in 1..Len(obj) :
    /\ Includes(members[c], obj[i].k)
    /\ \/ obj[i].k = a
       \/ obj[i].k \in Containers /\ NamedBy(obj[i].sub, obj[i].k, a)

(* atom a was assigned nothing and emitted nothing in the last call *)
Untouched(a) ==
  /\ value[a] = pre.value[a]
  /\ \A i \in 1..Len(calls) : calls[i].n # a
  /\ \A i \in 1..Len(log) : log[i].from # a

\* C22: fromObject(obj) changes only members named by keys of obj: a key
\* with no matching member raises no error and does not appear in
\* toObject() afterwards, and every cell that obj does not name keeps its
\* value, is assigned nothing and emits no event.
C22_FromObjectTouchesNamedMembersOnly ==
  last.op = "fromObject" =>
    /\ thrown = "none"
    /\ \A k \in AllKeys(last.obj) \ Nodes :
         k \notin AllKeys(Serialized(last.n))
    /\ \A k \in TopKeys(last.obj) :
         ~Includes(members[last.n], k) => k \notin TopKeys(Serialized(last.n))
    /\ \A a \in Atoms : ~NamedBy(last.obj, last.n, a) => Untouched(a)

(* an object with an unknown key beside the key of a member that changed,
   another cell keeping a value it was given before *)
C22_Witness ==
  /\ last.op = "fromObject" /\ last.n = "root"
  /\ ForeignKey \in TopKeys(last.obj) /\ "top" \in TopKeys(last.obj)
  /\ value["top"] # pre.value["top"]
  /\ ~NamedBy(last.obj, "root", "leaf") /\ value["leaf"] # Num(0)

\* C23: fromJson(json) with a text that is not valid JSON raises a
\* SyntaxError to the caller and changes no member value, emits no
\* beforeChange or change event, and leaves history stack and cursor
\* unchanged.
C23_InvalidJsonThrowsAndChangesNothing ==
  (last.op = "fromJson" /\ last.obj \in InvalidTexts) =>
    /\ thrown = "SyntaxError"
    /\ NothingChanged

(* an invalid text whose valid beginning names a cell holding another
   value, given to a container that has checkpoints *)
C23_Witness ==
  /\ last.op = "fromJson" /\ last.obj \in InvalidTexts
  /\ Len(last.obj) > 5 /\ last.obj[2] = Str("leaf")
  /\ value["leaf"] # Num(1)
  /\ useHistory[last.n] /\ Len(history[last.n]) >= 2

(* the operations that begin with validateInitialized *)
GuardedOps == {"fromObject", "fromJson", "addHistory", "undo", "redo", "load"}

(* positions in the console output of the warnings of the last call, and
   of the warnings about container c *)
NewWarnings == (Len(pre.warnings) + 1)..Len(warnings)
WarningsOf(c) == {i \in 1..Len(warnings) : warnings[i].c = c}

(* the last call was a guarded operation on a container that was not
   initialized and had not warned *)
FirstGuardedCall ==
  /\ last.op \in GuardedOps
  /\ ~pre.isInitialized[last.n] /\ ~pre.hasWarned[last.n]

\* C24: whatever guarded operations are invoked, each container instance
\* has at most one warning, counted by instance; the first guarded
\* operation invoked on a container whose init() has not run emits it,
\* and it names that operation (for a member container reached through
\* its parent's call, the fromObject the parent invoked on it).
C24_OneWarningNamingFirstOperation ==
  /\ \A c \in Containers : Cardinality(WarningsOf(c)) <= 1
  /\ \A c \in Containers : hasWarned[c] <=> WarningsOf(c) # {}
  /\ FirstGuardedCall =>
       \E i \in NewWarnings : warnings[i] = [c |-> last.n, op |-> last.op]
  /\ \A i \in NewWarnings :
       warnings[i].op =
         IF warnings[i].c = last.n THEN last.op ELSE "fromObject"

(* both instances have warned, each for its own first operation, and a
   later guarded call on the root added nothing *)
C24_Witness ==
  /\ Len(warnings) = 2
  /\ warnings[1] = [c |-> "child", op |-> "undo"]
  /\ warnings[2].c = "root" /\ warnings[2].op # "undo"
  /\ last.op \in GuardedOps /\ last.n = "root" /\ last.op # warnings[2].op
  /\ ~isInitialized["root"] /\ NewWarnings = {}

\* C25: a call emits no warning about a container whose init() had been
\* called before it, and init() itself emits none, also when it records
\* the initial checkpoint of a container with history enabled.
C25_NoWarningOnceInitialized ==
  /\ last.op = "init" => NewWarnings = {}
  /\ \A i \in NewWarnings : ~pre.isInitialized[warnings[i].c]

(* a guarded call that changed a cell, on a root whose init() recorded the
   first checkpoint and which never warned, while its member container,
   not initialized, did *)
C25_Witness ==
  /\ last.op \in GuardedOps /\ last.n = "root"
  /\ pre.isInitialized["root"] /\ useHistory["root"]
  /\ value["leaf"] # pre.value["leaf"]
  /\ WarningsOf("root") = {} /\ WarningsOf("child") # {}

(* the state before the last call, had every container been initialized *)
Unguarded ==
  [Eval EXCEPT !.value = pre.value, !.history = pre.history,
               !.historyIndex = pre.historyIndex,
               !.isInitialized = [c \in Containers |-> TRUE],
               !.hasWarned = pre.hasWarned, !.warnings = pre.warnings]

(* the last guarded call made again from that state *)
Replay ==
  CASE last.op = "fromObject" -> FromObject(Unguarded, last.n, last.obj)
    [] last.op = "fromJson" -> FromJson(Unguarded, last.n, last.obj)
    [] last.op = "load" -> Load(Unguarded, last.n, last.obj)
    [] last.op = "addHistory" -> AddHistory(Unguarded, last.n)
    [] last.op = "undo" -> Undo(Unguarded, last.n)
    [] last.op = "redo" -> Redo(Unguarded, last.n)

\* C26: a guarded operation on a container whose init() has not run has
\* the effect on member values, on history stack and cursor and on the
\* error raised that it has when no container lacks initialization; in
\* particular fromObject still assigns the member cells it names.
C26_WarningIsAdvisory ==
  last.op \in GuardedOps =>
    /\ value = Replay.value
    /\ history = Replay.history
    /\ historyIndex = Replay.historyIndex
    /\ thrown = Replay.thrown
    /\ last.op = "fromObject" => Applied(last.obj, last.n)

(* load() on a root with history whose init() has not run: it warned,
   assigned a cell below a member container and recorded a checkpoint *)
C26_Witness ==
  /\ last.op = "load" /\ last.n = "root"
  /\ ~isInitialized["root"] /\ ~isInitialized["child"] /\ useHistory["root"]
  /\ NewWarnings # {}
  /\ value["leaf"] # pre.value["leaf"]
  /\ Len(history["root"]) = 1 /\ historyIndex["root"] = 0

(* the last call ran a guarded operation on c: on c itself, or on its
   parent with an object that names c *)
GuardReached(op, c) ==
  /\ op.op \in GuardedOps
  /\ \/ op.n = c
     \/ op.op = "fromObject" /\ IsMember(op.n, c) /\ c \in TopKeys(op.obj)

\* C27: in every step, for every container's guard: isInitialized never
\* goes from true to false and goes from false to true only in init()
\* (markInitialized); hasWarned goes from false to true only in a guarded
\* call that reaches the container while it is not initialized, and every
\* guarded call on a container that is not initialized leaves it true; it
\* goes from true to false only in resetWarningState(), so it stays true
\* across guarded calls and across markInitialized().
C27_GuardTransitions ==
  [][\A c \in Containers :
       /\ isInitialized[c] => isInitialized'[c]
       /\ (~isInitialized[c] /\ isInitialized'[c]) =>
            (last'.op = "init" /\ last'.n = c)
       /\ (~hasWarned[c] /\ hasWarned'[c]) =>
            (GuardReached(last', c) /\ ~isInitialized[c])
       /\ (last'.op \in GuardedOps /\ last'.n = c /\ ~isInitialized[c]) =>
            hasWarned'[c]
       /\ (hasWarned[c] /\ ~hasWarned'[c]) =>
            (last'.op = "resetWarningState" /\ last'.n = c)]_vars

(* the root warned, was reset and warned again, and init() has just left
   the latch set *)
C27_Witness ==
  /\ last.op = "init" /\ last.n = "root"
  /\ isInitialized["root"] /\ hasWarned["root"]
  /\ Cardinality(WarningsOf("root")) = 2

\* C28: reading value on a cell, Atom or ObjectAtom, returns the value it
\* stores (the initial value, then the last value assigned that was not
\* equal to the stored one) and changes nothing.
C28_ReadReturnsStoredValue ==
  last.op = "get" => (last.v = value[last.n] /\ NothingChanged)

(* a value without identities: its type, its number and the set of its
   properties, each with the structure of its value *)
RECURSIVE Structure(_)
Structure(v) ==
  [t |-> v.t, n |-> v.n,
   props |-> {[k |-> v.props[i].k, v |-> Structure(v.props[i].v)] :
                i \in 1..Len(v.props)}]

(* the emits of the last call, in order *)
Emits == SelectSeq(calls, LAMBDA r : r.k = "emit")

\* C29: assigning to an ObjectAtom a value with the structure of the stored
\* one, be it another object and whatever the depth, emits nothing and
\* leaves the stored value, identity included, as it was; assigning a value
\* of another structure stores it and emits beforeChange then change on the
\* cell, each with from the cell, value the new and valueFrom the old value.
C29_DeepEqualityGate ==
  (last.op = "set" /\ deep[last.n]) =>
    IF Structure(last.v) = Structure(pre.value[last.n])
    THEN Emits = <<>> /\ value[last.n] = pre.value[last.n]
    ELSE /\ value[last.n] = last.v
         /\ Len(Emits) = 2
         /\ Emits[1].ev = "beforeChange" /\ Emits[2].ev = "change"
         /\ \A i \in 1..2 :
              /\ Emits[i].n = last.n /\ Emits[i].from = last.n
              /\ Emits[i].v = last.v
              /\ Emits[i].vf = pre.value[last.n]

(* an ObjectAtom holding a nested object was assigned another object of
   the same structure and kept the one it had *)
C29_Witness ==
  /\ last.op = "set" /\ deep[last.n]
  /\ last.v.t = "obj" /\ last.v.ref # value[last.n].ref
  /\ Structure(last.v) = Structure(value[last.n])
  /\ last.v.props[1].v.t = "obj"
  /\ Emits = <<>>

\* C30: assigning NaN to a plain cell (Atom) that holds NaN emits
\* beforeChange and then change.
C30_NaNToNaNFiresEvents ==
  (last.op = "set" /\ ~deep[last.n] /\ last.v = NaN
     /\ pre.value[last.n] = NaN) =>
    /\ Len(Emits) = 2
    /\ Emits[1].ev = "beforeChange" /\ Emits[2].ev = "change"
    /\ \A i \in 1..2 : Emits[i].n = last.n

(* NaN assigned to an Atom holding NaN *)
C30_Witness ==
  /\ last.op = "set" /\ ~deep[last.n]
  /\ last.v = NaN /\ pre.value[last.n] = NaN
  /\ value[last.n] = NaN /\ Len(Emits) = 2

(* the events of atom a are forwarded to container c: a was a member of c
   when c was last initialized, or of a member container of c that was its
   member and initialized likewise *)
WiredTo(c, a) ==
  \/ a \in wired[c]
  \/ \E d \in Containers : d \in wired[c] /\ a \in wired[d]

\* C31: the members a container forwards are those it held at its last
\* init(): when a cell changes, a container that was never initialized, or
\* that was initialized before the cell (or the member container holding
\* it) was added, emits nothing, and a container initialized since, however
\* many times, emits beforeChange and change exactly once each.
C31_WiringFixedAtInit ==
  (last.op = "set" /\ value[last.n] # pre.value[last.n]) =>
    \A c \in Containers : \A ev \in ChangeEvents :
      Cardinality(Dispatches(c, ev)) = IF WiredTo(c, last.n) THEN 1 ELSE 0

(* a cell added to an initialized container after its init() changed and
   the container emitted nothing, while the root forwards its own cell *)
C31_Witness ==
  /\ last.op = "set" /\ last.n = "leaf" /\ value["leaf"] # pre.value["leaf"]
  /\ "leaf" \in present /\ isInitialized["child"]
  /\ "leaf" \notin wired["child"] /\ "child" \in wired["root"]
  /\ Dispatches("child", "change") = {} /\ Dispatches("root", "change") = {}

(* the emits of the cells in the last call, as <<cell, event>> in order *)
CellEmits ==
  LET e == SelectSeq(calls, LAMBDA r : r.k = "emit" /\ r.n \in Atoms)
  IN [i \in 1..Len(e) |-> <<e[i].n, e[i].ev>>]

(* one beforeChange/change pair for every cell that obj, applied to c,
   names with a value that is not === the value held before the call, in
   the key order of obj *)
RECURSIVE ExpectedEmits(_, _, _)
ExpectedEmits(obj, c, i) ==
  IF i > Len(obj) THEN <<>>
  ELSE LET e == obj[i]
           here == IF ~IsMember(c, e.k) THEN <<>>
                   ELSE IF e.k \in Containers
                   THEN ExpectedEmits(e.sub, e.k, 1)
                   ELSE IF StrictEquals(pre.value[e.k], e.v) THEN <<>>
                   ELSE <<<<e.k, "beforeChange">>, <<e.k, "change">>>>
       IN here \o ExpectedEmits(obj, c, i + 1)

\* C32: after fromObject(obj) every member cell named in obj, directly or
\* through member containers, holds the supplied value; a cell whose
\* supplied value equals (===) the one it held emits nothing, and each
\* other named cell emits exactly one beforeChange and then one change,
\* the cells taking their turn in the key order of obj.
C32_FromObjectAssignsThroughSetter ==
  last.op = "fromObject" =>
    /\ Applied(last.obj, last.n)
    /\ CellEmits = ExpectedEmits(last.obj, last.n, 1)

(* an object naming the member container before the root's own cell:
   the leaf, given NaN while holding NaN, and the top cell both emitted, in
   that order *)
C32_Witness ==
  /\ last.op = "fromObject" /\ last.n = "root"
  /\ last.obj[1].k = "child" /\ Len(last.obj) = 2
  /\ pre.value["leaf"] = NaN /\ value["leaf"] = NaN
  /\ value["top"] # pre.value["top"]
  /\ CellEmits = <<<<"leaf", "beforeChange">>, <<"leaf", "change">>,
                   <<"top", "beforeChange">>, <<"top", "change">>>>

(* an emit on node n reaches container c: c is n, or n lies below c and
   every container from the one holding n up to c has been initialized *)
Reaches(c, n) ==
  \/ c = n
  \/ IsMember(c, n) /\ isInitialized[c]
  \/ \E d \in Containers :
       /\ IsMember(c, d) /\ isInitialized[c]
       /\ IsMember(d, n) /\ isInitialized[d]

(* container c recorded exactly one checkpoint in the last call *)
RecordedOne(c) ==
  /\ historyIndex[c] = pre.historyIndex[c] + 1
  /\ history[c] = SubSeq(pre.history[c], 1, pre.historyIndex[c] + 1)
                    \o <<Serialized(c)>>

C35_PayloadIsACopy ==
  (last.op = "set" /\ ~StrictEquals(pre.value[last.n], last.v)) =>
    /\ value[last.n] = last.v
    /\ \A i \in 1..Len(log) :
         log[i].ev = "change" =>
           /\ log[i].from = last.n
           /\ log[i].value = last.v
           /\ log[i].valueFrom = pre.value[last.n]
           /\ log[i].seen = last.v

(* a beforeChange listener of the root was handed the payload a listener
   of the cell had overwritten, and a change listener of the root then got
   the assigned value *)
C35_Witness ==
  /\ last.op = "set" /\ last.n = "leaf" /\ last.v # pre.value["leaf"]
  /\ \E i \in 1..Len(log) :
       /\ log[i].n = "root" /\ log[i].ev = "beforeChange"
       /\ log[i].value = MutatedValue
  /\ \E i \in 1..Len(log) :
       /\ log[i].n = "root" /\ log[i].ev = "change"
       /\ log[i].value = last.v

\* C36: undo() and redo() leave every history stack as it was, entries and
\* length alike; only cursors and member values may differ afterwards.
C36_UndoRedoKeepTheStack ==
  last.op \in {"undo", "redo"} => history = pre.history

(* an undo() stepped back from the last of several checkpoints and
   restored a different value, with the entries after the cursor still there *)
C36_Witness ==
  /\ last.op = "undo"
  /\ historyIndex[last.n] = pre.historyIndex[last.n] - 1
  /\ Len(history[last.n]) > historyIndex[last.n] + 1
  /\ value # pre.value

(* the last call was addHistory(), load(), or an undo() or redo() that
   moved the cursor, on a container with history *)
MovedCursor ==
  /\ last.op \in {"addHistory", "load", "undo", "redo"}
  /\ useHistory[last.n]
  /\ last.op \in {"undo", "redo"} =>
       historyIndex[last.n] # pre.historyIndex[last.n]

\* C37: right after addHistory(), load(), or an undo() or redo() that moved
\* the cursor, on a container with history, the cursor points at an entry
\* of the stack and toObject() of the container equals that entry.
C37_StateEqualsEntryAtCursor ==
  MovedCursor =>
    /\ historyIndex[last.n] \in 0..(Len(history[last.n]) - 1)
    /\ Serialized(last.n) = Checkpoint(history[last.n], historyIndex[last.n])

(* a redo() brought the container from one recorded state to another *)
C37_Witness ==
  /\ MovedCursor /\ last.op = "redo"
  /\ Serialized(last.n) # ToObject(pre.value, last.n)
  /\ Serialized(last.n) = Checkpoint(history[last.n], historyIndex[last.n])

(* the state of c before the last call was not the checkpoint at its cursor *)
Unrecorded(c) ==
  /\ pre.historyIndex[c] >= 0
  /\ ToObject(pre.value, c) # Checkpoint(pre.history[c], pre.historyIndex[c])

C39_UndoRedoSpareSkippedMembers ==
  /\ last.op \in {"undo", "redo"} =>
       \A a \in Atoms : SkippedIn(last.n, a) => value[a] = pre.value[a]
  /\ last.op = "fromObject" =>
       ((\E a \in Atoms : SkippedIn(last.n, a) /\ NamedBy(last.obj, last.n, a))
          => Applied(last.obj, last.n))

(* a listener of ev threw during the last call *)
Threw(ev) == \E i \in 1..Len(calls) : calls[i].k = "throw" /\ calls[i].ev = ev

\* C40: when a beforeChange listener throws during an assignment, on the
\* cell or on a container above it, the setter ends with that exception,
\* nothing runs after the throw, the cell keeps the value it had and no
\* change event is emitted; when a change listener throws, the setter ends
\* with the exception and the cell holds the assigned value.
C40_ThrowingListeners ==
  last.op = "set" =>
    /\ Threw("beforeChange") =>
         /\ thrown = "Error"
         /\ calls[Len(calls)].k = "throw"
         /\ value[last.n] = pre.value[last.n]
         /\ \A i \in 1..Len(calls) : calls[i].k # "store"
         /\ \A i \in 1..Len(calls) : calls[i].ev # "change"
         /\ \A i \in 1..Len(log) : log[i].ev # "change"
    /\ Threw("change") =>
         /\ thrown = "Error"
         /\ calls[Len(calls)].k = "throw"
         /\ value[last.n] = last.v
         /\ last.v # pre.value[last.n]
    /\ thrown = "none" => ~Threw("beforeChange") /\ ~Threw("change")

(* a beforeChange listener of the root threw after a spy of the cell had
   been told of the change to come; the cell kept its value *)
C40_Witness ==
  /\ last.op = "set" /\ last.v # pre.value[last.n]
  /\ \E i \in 1..Len(calls) :
       calls[i].k = "throw" /\ calls[i].n = "root" /\
       calls[i].ev = "beforeChange"
  /\ \E i \in 1..Len(log) : log[i].n = "leaf" /\ log[i].ev = "beforeChange"
  /\ value[last.n] = pre.value[last.n]

====
